---- MODULE Spec2Model ----
(***************************************************************************)
(* A model of the paper-network analyser: keyword extraction and document  *)
(* similarity (utils/keyword_extractor.py), graph assembly and filtering   *)
(* (utils/network_builder.py) and the Streamlit session that drives them   *)
(* (app.py).                                                               *)
(*                                                                         *)
(* Numbers.  A Python float is modelled in thousandths: 0.3 is 300, 1.0 is *)
(* 1000.  NaN and the infinities are the three values NaN, PosInf, NegInf. *)
(* A Python dict is a function, a list is a sequence (1-based here, so the *)
(* element Python calls xs[i] is xs[i + 1]), a dict or array indexed by    *)
(* 0..n-1 is a function on 0..n-1.  Python's None is the value None.       *)
(* A call that raises returns Raised(kind).                                *)
(***************************************************************************)
EXTENDS Integers, Sequences, FiniteSets, TLC

VARIABLES
    papers,              \* st.session_state.papers / the `papers` argument
    selected_paper,      \* st.session_state.selected_paper
    selected_paper_ids,  \* st.session_state.selected_paper_ids
    similarity_matrix,   \* st.session_state.similarity_matrix
    network_data,        \* st.session_state.network_data / build_network_data's result
    filter_input,        \* the view last handed to filter_network_data
    min_similarity,      \* the min_similarity of the last filter call
    max_keywords,        \* the max_keywords of the last filter call
    shown,               \* the result of the last filter_network_data call
    reshown,             \* filter_network_data applied to `shown`, same arguments
    library,             \* what sklearn and numpy returned to the last call
    detail_network,      \* build_paper_detail_network's result, as last drawn
    checkboxes,          \* the state of the widgets paper_select_0, _1, ...
    pc                   \* the call or handler that ran last

vars == <<papers, selected_paper, selected_paper_ids, similarity_matrix,
          network_data, filter_input, min_similarity, max_keywords, shown,
          reshown, library, detail_network, checkboxes, pc>>

-----------------------------------------------------------------------------
(* Python values *)

None == [none |-> TRUE]

Raised(kind) == [raised |-> kind]

IsRaised(v) == "raised" \in DOMAIN v

\* a numpy array: its rows, a function on 0..n-1 of functions on 0..n-1
\* (np.array([]) has no row)
Array(rows) == [ndarray |-> rows]

\* float('nan'), float('inf'), float('-inf'): outside every score's range
NaN == 0 - 999999
PosInf == 999998 + 0
NegInf == 0 - 999998

\* np.isnan / np.isinf
IsNaN(v) == v = NaN
IsInf(v) == v = PosInf \/ v = NegInf

\* a > b on floats: every comparison with NaN is False
FloatGreater(a, b) ==
    /\ ~IsNaN(a)
    /\ ~IsNaN(b)
    /\ a > b

Range(s) == {s[i] : i \in DOMAIN s}

Min(a, b) == IF a < b THEN a ELSE b

\* xs[:k] of a Python list, for any integer k (a negative k drops from the end)
Prefix(xs, k) ==
    IF k >= 0 THEN SubSeq(xs, 1, Min(k, Len(xs)))
    ELSE SubSeq(xs, 1, Len(xs) + k)

RECURSIVE GCD(_, _)
GCD(a, b) == IF b = 0 THEN a ELSE GCD(b, a % b)

Abs(a) == IF a < 0 THEN 0 - a ELSE a

\* the exact rational num/den, den > 0, in lowest terms
Rational(num, den) ==
    LET g == GCD(Abs(num), den)
    IN [num |-> num \div g, den |-> den \div g]

-----------------------------------------------------------------------------
(* collections.Counter: the (key, count) items in insertion order *)

CounterKeys(counter) == [i \in DOMAIN counter |-> counter[i][1]]

CounterHas(counter, key) == \E i \in DOMAIN counter : counter[i][1] = key

CounterGet(counter, key) ==
    IF CounterHas(counter, key)
    THEN counter[CHOOSE i \in DOMAIN counter : counter[i][1] = key][2]
    ELSE 0

\* counter[key] += amount
CounterAdd(counter, key, amount) ==
    IF CounterHas(counter, key)
    THEN [i \in DOMAIN counter |->
            IF counter[i][1] = key
            THEN <<key, counter[i][2] + amount>>
            ELSE counter[i]]
    ELSE Append(counter, <<key, amount>>)

\* a most_common that returns the first n items as inserted
MostCommonAsInserted(counter, n) ==
    SubSeq(counter, 1, IF n <= 0 THEN 0 ELSE Min(n, Len(counter)))

\* Counter.most_common(n): the n first items when sorted by count, largest
\* first; equal counts keep their insertion order (heapq.nlargest is stable).
\* Item i stands after exactly the items that have a larger count or the same
\* count and an earlier insertion.
MostCommon(counter, n) ==
    LET Before(j, i) ==
            \/ counter[j][2] > counter[i][2]
            \/ counter[j][2] = counter[i][2] /\ j < i
        Rank(i) == Cardinality({j \in DOMAIN counter : Before(j, i)})
        kept == IF n <= 0 THEN 0 ELSE Min(n, Len(counter))
    IN <<>> \o [r \in 1..kept |->
                counter[CHOOSE i \in DOMAIN counter : Rank(i) = r - 1]]

-----------------------------------------------------------------------------
(* utils/keyword_extractor.py *)

STOP_WORDS ==
    {"the", "a", "an", "and", "or", "but", "in", "on", "at", "to", "for",
     "of", "with", "by", "from", "as", "is", "was", "are", "were", "been",
     "be", "have", "has", "had", "do", "does", "did", "will", "would", "could",
     "should", "may", "might", "can", "this", "that", "these", "those", "it",
     "its", "we", "our", "you", "your", "they", "their", "i", "my", "me"}

\* A text is the sequence of its whitespace-separated chunks.  text.lower()
\* followed by re.sub(r'[^a-z\s]', ' ', text) and split() turns one chunk into
\* zero or more words: upper case is folded, every other character cuts.
NormalizeChunk(chunk) ==
    CASE chunk = "Network," -> <<"network">>
      [] chunk = "TEST" -> <<"test">>
      [] chunk = "Error" -> <<"error">>
      [] chunk = "text:" -> <<"text">>
      [] chunk = "EOF" -> <<"eof">>
      [] chunk = "e-mail" -> <<"e", "mail">>
      [] chunk = "2024" -> <<>>
      [] OTHER -> <<chunk>>

RECURSIVE SplitWords(_)
SplitWords(text) ==
    IF text = <<>> THEN <<>>
    ELSE NormalizeChunk(Head(text)) \o SplitWords(Tail(text))

\* Counter(words): counts in order of first appearance
RECURSIVE CountWords(_, _)
CountWords(words, counter) ==
    IF words = <<>> THEN counter
    ELSE CountWords(Tail(words), CounterAdd(counter, Head(words), 1))

\* the number of words counted, in place of the largest count
TotalCount(counter) ==
    LET RECURSIVE Sum(_)
        Sum(k) == IF k = 0 THEN 0 ELSE counter[k][2] + Sum(k - 1)
    IN Sum(Len(counter))

MaxCount(counter) ==
    CHOOSE m \in {counter[i][2] : i \in DOMAIN counter} :
        \A i \in DOMAIN counter : counter[i][2] <= m

\* freq / max_freq, in thousandths
Score(freq, max_freq) == (freq * 1000) \div max_freq

extract_keywords(text, top_n) ==
    LET words == SelectSeq(SplitWords(text),
                           LAMBDA w : w \notin STOP_WORDS /\ Len(w) > 3)
    IN IF words = <<>> THEN <<>>
       ELSE LET word_freq == CountWords(words, <<>>)
                max_freq == MaxCount(word_freq)
                common == MostCommon(word_freq, top_n)
            IN [i \in DOMAIN common |->
                    <<common[i][1], Score(common[i][2], max_freq)>>]

\* --- TfidfVectorizer(max_features=100, stop_words='english') ---------------
\* The words of sklearn's English stop list that the texts of this model use.
\* It is a different list from STOP_WORDS: "system" is on it.
SKLEARN_STOP_WORDS == {"the", "a", "an", "and", "with", "that", "system"}

\* the vectorizer lower-cases and cuts at every non-word character; unlike
\* the extractor's re.sub it keeps digits
SklearnChunk(chunk) ==
    IF chunk = "2024" THEN <<chunk>> ELSE NormalizeChunk(chunk)

RECURSIVE SklearnWords(_)
SklearnWords(text) ==
    IF text = <<>> THEN <<>>
    ELSE SklearnChunk(Head(text)) \o SklearnWords(Tail(text))

\* the vectorizer's tokens are the runs of two or more word characters that
\* are not on its stop list
SklearnTokens(text) ==
    SelectSeq(SklearnWords(text),
              LAMBDA w : Len(w) >= 2 /\ w \notin SKLEARN_STOP_WORDS)

\* fit_transform raises ValueError (empty vocabulary) when no document has a token
VectorizationFails(texts) ==
    \A i \in DOMAIN texts : SklearnTokens(texts[i]) = <<>>

TokenCount(text, w) ==
    Cardinality({i \in DOMAIN SklearnTokens(text) : SklearnTokens(text)[i] = w})

SameTokenCounts(a, b) ==
    /\ Range(SklearnTokens(a)) = Range(SklearnTokens(b))
    /\ \A w \in Range(SklearnTokens(a)) : TokenCount(a, w) = TokenCount(b, w)

\* Values cosine_similarity may give two documents that share some but not all
\* of their weighted terms; the value depends on the idf weights.
CosLevels == <<400, 100, 50, 300, 301>>

\* One result of cosine_similarity(tfidf_matrix).  What the library fixes: the
\* matrix is symmetric; a document without a token has an all-zero row, its
\* diagonal included; otherwise the diagonal and documents with the same term
\* counts give 1.0; documents without a common term give 0.0.
CosineMatrix(texts, sample) ==
    LET n == Len(texts)
        Zero(i) == SklearnTokens(texts[i + 1]) = <<>>
        Cos(i, j) ==
            IF Zero(i) \/ Zero(j) THEN 0
            ELSE IF i = j \/ SameTokenCounts(texts[i + 1], texts[j + 1]) THEN 1000
            ELSE IF Range(SklearnTokens(texts[i + 1]))
                        \cap Range(SklearnTokens(texts[j + 1])) = {} THEN 0
            ELSE CosLevels[((sample + i + j - 1) % Len(CosLevels)) + 1]
    IN Array([i \in 0..(n - 1) |-> [j \in 0..(n - 1) |-> Cos(i, j)]])

CosineSamples == 0..(Len(CosLevels) - 1)

\* Values of np.random.rand, in thousandths of [0, 1)
RandStream == <<0, 999, 500, 2>>

\* np.random.rand(n, n): n*n successive values of the generator
RandMatrix(n, sample) ==
    Array([i \in 0..(n - 1) |-> [j \in 0..(n - 1) |->
        RandStream[((sample + i * n + j) % Len(RandStream)) + 1]]])

RandSamples == 0..(Len(RandStream) - 1)

\* rand * 0.5 + 0.3
FallbackEntry(u) == (u * 5) \div 10 + 300

\* calculate_similarity without its try/except: a failing vectorizer raises
calculate_similarity_unguarded(docs, cosine, rand) ==
    IF Len(docs) < 2 THEN Array([i \in {0} |-> [j \in {0} |-> 1000]])
    ELSE IF VectorizationFails([i \in DOMAIN docs |-> docs[i].text])
         THEN Raised("ValueError")
    ELSE cosine

\* `cosine` is what the vectorizer and cosine_similarity return when they do
\* not raise, `rand` what np.random.rand returns
calculate_similarity(docs, cosine, rand) ==
    IF Len(docs) < 2 THEN Array([i \in {0} |-> [j \in {0} |-> 1000]])
    ELSE IF \E i \in DOMAIN docs : "text" \notin DOMAIN docs[i]
         THEN Raised("KeyError")
    ELSE IF VectorizationFails([i \in DOMAIN docs |-> docs[i].text])
         THEN Array([i \in DOMAIN rand.ndarray |->
                        [j \in DOMAIN rand.ndarray[i] |->
                            FallbackEntry(rand.ndarray[i][j])]])
    ELSE cosine

\* the path calculate_similarity takes
SimilarityPath(docs) ==
    IF Len(docs) < 2 THEN "single"
    ELSE IF VectorizationFails([i \in DOMAIN docs |-> docs[i].text])
         THEN "fallback"
    ELSE "cosine"

-----------------------------------------------------------------------------
(* utils/network_builder.py *)

\* radius_outer = 3.0, radius_inner = 1.5 and the unit sphere, in tenths
radius_outer == 30
radius_inner == 15

\* paper['keywords'][:20]
KeywordSlice == 20

\* all_keywords.most_common(30)
TopKeywords == 30

\* the fixed threshold of build_network_data, 0.3
DefaultThreshold == 300

\* The golden-angle spiral point of index i among n on the sphere of the given
\* radius.  y = radius * (1 - (i / d) * 2), d = n - 1 or 1, is an exact
\* rational.  x = radius * cos(golden_angle * i) * sqrt(1 - y * y) and the z
\* with sin are exactly 0 where y is 1 or -1 and are otherwise kept as the
\* term that names them.
SpherePoint(i, n, radius) ==
    LET d == IF n > 1 THEN n - 1 ELSE 1
        yNorm == Rational(d - 2 * i, d)
        Ring(axis) ==
            IF yNorm.num * yNorm.num = yNorm.den * yNorm.den
            THEN Rational(0, 1)
            ELSE [axis |-> axis, radius |-> radius, theta |-> i, yNorm |-> yNorm]
    IN [x |-> Ring("x"),
        y |-> Rational(radius * (d - 2 * i), 10 * d),
        z |-> Ring("z")]

RECURSIVE Concat(_)
Concat(seqs) ==
    IF seqs = <<>> THEN <<>> ELSE Head(seqs) \o Concat(Tail(seqs))

\* for i in range(n): for j in range(i + 1, n), in loop order
IndexPairs(n) ==
    Concat([a \in 1..n |-> [b \in 1..(n - a) |-> <<a - 1, a - 1 + b>>]])

\* edge_x.extend([x0, x1]): the runs without their gap marker
EdgeRunsUngapped(segments) ==
    LET Run(Coordinate(_)) ==
            <<>> \o [p \in 1..(2 * Len(segments)) |->
                        Coordinate(segments[(p + 1) \div 2][2 - (p % 2)])]
        X(pos) == pos.x
        Y(pos) == pos.y
        Z(pos) == pos.z
    IN [x |-> Run(X), y |-> Run(Y), z |-> Run(Z)]

\* edge_x.extend([x0, x1, None]) and the same for y and z, for the segments
\* (a sequence of <<start, end>> positions) in order
EdgeRuns(segments) ==
    LET Run(Coordinate(_)) ==
            <<>> \o [p \in 1..(3 * Len(segments)) |->
                        IF p % 3 = 1 THEN Coordinate(segments[(p + 2) \div 3][1])
                        ELSE IF p % 3 = 2 THEN Coordinate(segments[(p + 2) \div 3][2])
                        ELSE None]
        X(pos) == pos.x
        Y(pos) == pos.y
        Z(pos) == pos.z
    IN [x |-> Run(X), y |-> Run(Y), z |-> Run(Z)]

\* similarity_matrix[i][j] raises IndexError outside the array
HasEntry(matrix, i, j) ==
    i \in DOMAIN matrix.ndarray /\ j \in DOMAIN matrix.ndarray[i]

Entry(matrix, i, j) == matrix.ndarray[i][j]

\* np.eye(n)
Eye(n) ==
    Array([i \in 0..(n - 1) |-> [j \in 0..(n - 1) |-> IF i = j THEN 1000 ELSE 0]])

HasKeywords(paper) == "keywords" \in DOMAIN paper /\ paper.keywords # <<>>

\* dict(pairs): a later pair replaces an earlier one with the same key
DictHas(pairs, key) == \E i \in DOMAIN pairs : pairs[i][1] = key

DictGet(pairs, key) ==
    pairs[CHOOSE i \in DOMAIN pairs :
            /\ pairs[i][1] = key
            /\ \A j \in DOMAIN pairs : pairs[j][1] = key => j <= i][2]

\* '{:.2f}' of a weight in thousandths: hundredths, rounded; 'nan', 'inf' and
\* '-inf' for the values that are no number
Format2f(weight) ==
    IF IsNaN(weight) \/ IsInf(weight) THEN weight ELSE (weight + 5) \div 10

_empty_network_data ==
    [edge_x |-> <<>>, edge_y |-> <<>>, edge_z |-> <<>>,
     keyword_edge_x |-> <<>>, keyword_edge_y |-> <<>>, keyword_edge_z |-> <<>>,
     paper_x |-> <<>>, paper_y |-> <<>>, paper_z |-> <<>>,
     paper_labels |-> <<>>, paper_hover |-> <<>>, paper_ids |-> <<>>,
     keyword_x |-> <<>>, keyword_y |-> <<>>, keyword_z |-> <<>>,
     keyword_labels |-> <<>>, keyword_hover |-> <<>>,
     all_keywords |-> <<>>,
     paper_positions |-> <<>>,
     keyword_positions |-> <<>>,
     similarity_matrix |-> Array(<<>>)]

\* the (keyword, score) pairs the loop of lines 39-43 visits, in its order
SlicedKeywords(docs) ==
    Concat([d \in DOMAIN docs |->
                IF HasKeywords(docs[d])
                THEN Prefix(docs[d].keywords, KeywordSlice)
                ELSE <<>>])

\* a + b on floats: NaN with anything is NaN, an infinity stays what it is,
\* inf + -inf is NaN
FloatAdd(a, b) ==
    IF IsNaN(a) \/ IsNaN(b) THEN NaN
    ELSE IF IsInf(a) THEN (IF IsInf(b) /\ a # b THEN NaN ELSE a)
    ELSE IF IsInf(b) THEN b
    ELSE a + b

RECURSIVE SumScores(_, _)
SumScores(pairs, at) ==
    IF at = {} THEN 0
    ELSE LET k == CHOOSE a \in at : \A b \in at : a <= b
         IN FloatAdd(pairs[k][2], SumScores(pairs, at \ {k}))

\* lines 38-43: all_keywords[keyword] += score over those pairs.  The Counter
\* holds each term once, where it first appeared, with the sum of its scores.
CollectKeywords(docs) ==
    LET pairs == SlicedKeywords(docs)
        firsts == {k \in DOMAIN pairs :
                    \A j \in 1..(k - 1) : pairs[j][1] # pairs[k][1]}
        First(r) == CHOOSE k \in firsts :
                        Cardinality({j \in firsts : j < k}) = r - 1
    IN <<>> \o [r \in 1..Cardinality(firsts) |->
                <<pairs[First(r)][1],
                  SumScores(pairs, {k \in DOMAIN pairs :
                                        pairs[k][1] = pairs[First(r)][1]})>>]

\* lines 45-53 without the two early returns
NoKeywordsFoundIgnored(all_keywords, top_keywords) == FALSE

\* lines 45-53: `if not all_keywords` and `if not top_keywords`
NoKeywordsFound(all_keywords, top_keywords) ==
    all_keywords = <<>> \/ top_keywords = <<>>

\* lines 70-78: the matrix build_network_data works with
BuildSimilarity(docs, cosine, rand) ==
    LET result == calculate_similarity(docs, cosine, rand)
    IN IF IsRaised(result) THEN Eye(Len(docs))
       ELSE IF \E i \in DOMAIN result.ndarray : \E j \in DOMAIN result.ndarray[i] :
                    IsNaN(Entry(result, i, j)) \/ IsInf(Entry(result, i, j))
            THEN Eye(Len(docs))
       ELSE result

\* lines 80-95 with `similarity >= 0.3`
BuildDocEdgesAtLeast(n_papers, matrix, paper_positions) ==
    EdgeRuns(
        LET kept == SelectSeq(IndexPairs(n_papers),
                        LAMBDA p : Entry(matrix, p[1], p[2]) >= DefaultThreshold)
        IN [k \in DOMAIN kept |->
                <<paper_positions[kept[k][1]], paper_positions[kept[k][2]]>>])

\* lines 80-95: the document-document edges
BuildDocEdges(n_papers, matrix, paper_positions) ==
    EdgeRuns(
        LET kept == SelectSeq(IndexPairs(n_papers),
                        LAMBDA p :
                            /\ HasEntry(matrix, p[1], p[2])
                            /\ ~IsNaN(Entry(matrix, p[1], p[2]))
                            /\ ~IsInf(Entry(matrix, p[1], p[2]))
                            /\ FloatGreater(Entry(matrix, p[1], p[2]), DefaultThreshold))
        IN [k \in DOMAIN kept |->
                <<paper_positions[kept[k][1]], paper_positions[kept[k][2]]>>])

\* lines 98-118 with dict(paper['keywords']) in place of the slice of 20
BuildKeywordEdgesUnsliced(docs, top_keywords, paper_positions, keyword_positions) ==
    EdgeRuns(Concat(
        [d \in DOMAIN docs |->
            LET kept == SelectSeq(top_keywords,
                            LAMBDA kw :
                                /\ DictHas(docs[d].keywords, kw)
                                /\ DictGet(docs[d].keywords, kw) > DefaultThreshold)
            IN [k \in DOMAIN kept |->
                    <<paper_positions[d - 1], keyword_positions[kept[k]]>>]]))

\* lines 98-118: the document-keyword edges
BuildKeywordEdges(docs, top_keywords, paper_positions, keyword_positions) ==
    EdgeRuns(Concat(
        [d \in DOMAIN docs |->
            IF ~HasKeywords(docs[d]) THEN <<>>
            ELSE LET paper_keywords == Prefix(docs[d].keywords, KeywordSlice)
                     kept == SelectSeq(top_keywords,
                                LAMBDA kw :
                                    /\ DictHas(paper_keywords, kw)
                                    /\ ~IsNaN(DictGet(paper_keywords, kw))
                                    /\ ~IsInf(DictGet(paper_keywords, kw))
                                    /\ FloatGreater(DictGet(paper_keywords, kw),
                                                    DefaultThreshold))
                 IN [k \in DOMAIN kept |->
                        <<paper_positions[d - 1], keyword_positions[kept[k]]>>]]))

build_network_data(docs, cosine, rand) ==
    IF docs = <<>> THEN _empty_network_data
    ELSE
    LET n_papers == Len(docs)
        paper_positions ==
            [i \in 0..(n_papers - 1) |-> SpherePoint(i, n_papers, radius_outer)]
        all_keywords == CollectKeywords(docs)
        top_keywords == CounterKeys(MostCommon(all_keywords, TopKeywords))
        n_keywords == Len(top_keywords)
        keyword_positions ==
            [kw \in Range(top_keywords) |->
                SpherePoint((CHOOSE i \in DOMAIN top_keywords : top_keywords[i] = kw) - 1,
                            n_keywords, radius_inner)]
        matrix == BuildSimilarity(docs, cosine, rand)
        edges == BuildDocEdges(n_papers, matrix, paper_positions)
        keyword_edges ==
            BuildKeywordEdges(docs, top_keywords, paper_positions, keyword_positions)
    IN IF NoKeywordsFound(all_keywords, top_keywords) THEN _empty_network_data
       ELSE
       [edge_x |-> edges.x, edge_y |-> edges.y, edge_z |-> edges.z,
        keyword_edge_x |-> keyword_edges.x,
        keyword_edge_y |-> keyword_edges.y,
        keyword_edge_z |-> keyword_edges.z,
        paper_x |-> [i \in 1..n_papers |-> paper_positions[i - 1].x],
        paper_y |-> [i \in 1..n_papers |-> paper_positions[i - 1].y],
        paper_z |-> [i \in 1..n_papers |-> paper_positions[i - 1].z],
        paper_labels |-> [i \in 1..n_papers |-> <<"P", i>>],
        paper_hover |-> [i \in 1..n_papers |->
                            [name |-> IF "name" \in DOMAIN docs[i]
                                      THEN docs[i].name ELSE "Unknown",
                             keywords |-> IF "keywords" \in DOMAIN docs[i]
                                          THEN Len(docs[i].keywords) ELSE 0]],
        paper_ids |-> [i \in 1..n_papers |-> i - 1],
        keyword_x |-> [i \in 1..n_keywords |-> keyword_positions[top_keywords[i]].x],
        keyword_y |-> [i \in 1..n_keywords |-> keyword_positions[top_keywords[i]].y],
        keyword_z |-> [i \in 1..n_keywords |-> keyword_positions[top_keywords[i]].z],
        keyword_labels |-> top_keywords,
        keyword_hover |-> [i \in 1..n_keywords |->
                            [keyword |-> top_keywords[i],
                             count |-> Format2f(CounterGet(all_keywords,
                                                           top_keywords[i]))]],
        all_keywords |-> all_keywords,
        paper_positions |-> paper_positions,
        keyword_positions |-> keyword_positions,
        similarity_matrix |-> matrix]

\* lines 192-204 with the 0.3 of build_network_data left in
FilterDocEdgesFixed(n_papers, matrix, paper_positions, threshold) ==
    BuildDocEdges(n_papers, matrix, paper_positions)

\* lines 192-204: the document-document edges above min_similarity; a kept
\* pair whose position is missing raises KeyError (not among the caught)
FilterDocEdges(n_papers, matrix, paper_positions, threshold) ==
    LET kept == SelectSeq(IndexPairs(n_papers),
                    LAMBDA p :
                        /\ HasEntry(matrix, p[1], p[2])
                        /\ ~IsNaN(Entry(matrix, p[1], p[2]))
                        /\ ~IsInf(Entry(matrix, p[1], p[2]))
                        /\ FloatGreater(Entry(matrix, p[1], p[2]), threshold))
    IN IF \E k \in DOMAIN kept :
            kept[k][1] \notin DOMAIN paper_positions
                \/ kept[k][2] \notin DOMAIN paper_positions
       THEN Raised("KeyError")
       ELSE EdgeRuns([k \in DOMAIN kept |->
                <<paper_positions[kept[k][1]], paper_positions[kept[k][2]]>>])

\* lines 211-232: the document-keyword edges to the kept keyword labels;
\* line 220 raises KeyError for a document with keywords and no position
FilterKeywordEdges(docs, top_keywords, paper_positions, keyword_positions, threshold) ==
    IF \E d \in DOMAIN docs :
            HasKeywords(docs[d]) /\ (d - 1) \notin DOMAIN paper_positions
    THEN Raised("KeyError")
    ELSE EdgeRuns(Concat(
        [d \in DOMAIN docs |->
            IF ~HasKeywords(docs[d]) THEN <<>>
            ELSE LET paper_keywords == Prefix(docs[d].keywords, KeywordSlice)
                     kept == SelectSeq(top_keywords,
                                LAMBDA kw :
                                    /\ DictHas(paper_keywords, kw)
                                    /\ kw \in DOMAIN keyword_positions
                                    /\ ~IsNaN(DictGet(paper_keywords, kw))
                                    /\ ~IsInf(DictGet(paper_keywords, kw))
                                    /\ FloatGreater(DictGet(paper_keywords, kw),
                                                    threshold))
                 IN [k \in DOMAIN kept |->
                        <<paper_positions[d - 1], keyword_positions[kept[k]]>>]]))

\* lines 177-185: the copy of the view with the keyword arrays cut
TruncateKeywords(view, k) ==
    IF k < Len(view.keyword_labels)
    THEN [view EXCEPT !.keyword_x = Prefix(view.keyword_x, k),
                      !.keyword_y = Prefix(view.keyword_y, k),
                      !.keyword_z = Prefix(view.keyword_z, k),
                      !.keyword_labels = Prefix(view.keyword_labels, k),
                      !.keyword_hover = Prefix(view.keyword_hover, k)]
    ELSE view

\* `not network_data or 'similarity_matrix' not in network_data`
CarriesNoMatrix(view) ==
    \/ view = None
    \/ DOMAIN view = {}
    \/ "similarity_matrix" \notin DOMAIN view

filter_network_data(view, docs, threshold, k) ==
    IF CarriesNoMatrix(view) THEN view
    ELSE
    LET filtered_data == TruncateKeywords(view, k)
        edges == FilterDocEdges(Len(docs), view.similarity_matrix,
                                view.paper_positions, threshold)
        keyword_edges ==
            FilterKeywordEdges(docs, filtered_data.keyword_labels,
                               view.paper_positions, view.keyword_positions,
                               threshold)
    IN IF IsRaised(edges) THEN edges
       ELSE IF IsRaised(keyword_edges) THEN keyword_edges
       ELSE [filtered_data EXCEPT
                !.edge_x = edges.x, !.edge_y = edges.y, !.edge_z = edges.z,
                !.keyword_edge_x = keyword_edges.x,
                !.keyword_edge_y = keyword_edges.y,
                !.keyword_edge_z = keyword_edges.z]

\* line 177, filtered_data = network_data.copy(), with the input itself in
\* place of its copy
FilterWritesToInput == "input"

\* line 177: the dict that lines 180-236 assign to is a copy of the input
FilterWritesTo == "copy"

\* the input view as filter_network_data(view, docs, threshold, k) leaves it:
\* the assignments of lines 180-236 go to filtered_data and replace its
\* sequences by new ones, none is changed in place
FilterInputAfter(view, docs, threshold, k) ==
    IF FilterWritesTo = "copy" \/ CarriesNoMatrix(view) THEN view
    ELSE IF IsRaised(filter_network_data(view, docs, threshold, k))
         THEN TruncateKeywords(view, k)
    ELSE filter_network_data(view, docs, threshold, k)

\* paper.get('keywords', [])[:25]
DetailSlice == 25

\* lines 278-286 with n_keywords for the denominator n_keywords - 1
DetailPointOverCount(i, n) ==
    [x |-> [axis |-> "x", radius |-> 10, theta |-> i,
            yNorm |-> Rational(n - 2 * i, n)],
     y |-> Rational(n - 2 * i, n),
     z |-> [axis |-> "z", radius |-> 10, theta |-> i,
            yNorm |-> Rational(n - 2 * i, n)]]

\* lines 278-286: the point of index i among n on the unit sphere
DetailPoint(i, n) == SpherePoint(i, n, 10)

\* lines 255-318.  Sizes 10 + score * 20 and colours are in thousandths; the
\* hover text is the keyword and its score to three decimals.
build_paper_detail_network(paper) ==
    LET keywords == Prefix(IF "keywords" \in DOMAIN paper THEN paper.keywords
                           ELSE <<>>, DetailSlice)
        n_keywords == Len(keywords)
        positions == [i \in 1..n_keywords |-> DetailPoint(i - 1, n_keywords)]
        near == Concat([a \in 1..n_keywords |->
                    [b \in 1..(Min(a + 2, n_keywords) - a) |-> <<a, a + b>>]])
        edges == EdgeRuns([k \in DOMAIN near |->
                    <<positions[near[k][1]], positions[near[k][2]]>>])
    IN IF n_keywords = 0
       THEN [edge_x |-> <<>>, edge_y |-> <<>>, edge_z |-> <<>>,
             node_x |-> <<>>, node_y |-> <<>>, node_z |-> <<>>,
             node_sizes |-> <<>>, node_colors |-> <<>>, node_labels |-> <<>>,
             node_hover |-> <<>>]
       ELSE [edge_x |-> edges.x, edge_y |-> edges.y, edge_z |-> edges.z,
             node_x |-> [i \in 1..n_keywords |-> positions[i].x],
             node_y |-> [i \in 1..n_keywords |-> positions[i].y],
             node_z |-> [i \in 1..n_keywords |-> positions[i].z],
             node_sizes |-> [i \in 1..n_keywords |-> 10000 + keywords[i][2] * 20],
             node_colors |-> [i \in 1..n_keywords |-> keywords[i][2]],
             node_labels |-> [i \in 1..n_keywords |-> keywords[i][1]],
             node_hover |-> [i \in 1..n_keywords |->
                                [keyword |-> keywords[i][1],
                                 score |-> keywords[i][2]]]]

-----------------------------------------------------------------------------
(* The library functions applied to drawn arguments *)

\* the largest number of documents in one call
MaxPapers == 3

TermNames ==
    <<"term01", "term02", "term03", "term04", "term05", "term06", "term07",
      "term08", "term09", "term10", "term11", "term12", "term13", "term14",
      "term15", "term16", "term17", "term18", "term19", "term20", "term21",
      "term22", "term23", "term24", "term25", "term26", "term27", "term28",
      "term29", "term30", "term31", "term32", "term33">>

\* count keywords from TermNames[first] on, scores falling from 1.0 by `step`
ManyKeywords(first, count, step) ==
    [i \in 1..count |-> <<TermNames[first + i - 1], 1000 - step * (i - 1)>>]

\* The documents handed to the functions.  "net", "des" and "dat" are the
\* documents of the end-to-end scenario and "net2" has the text and keywords
\* of "net"; "stop" has no word the extractor or the vectorizer keeps;
\* so has "stop2"; "long1" has 22 keywords and "long2" 21, 33 different ones
\* together, and "long2" has no token for the vectorizer and scores down to
\* 0.3 and below.
Documents ==
    <<[name |-> "net", text |-> <<"network", "network", "system", "cat">>,
       keywords |-> <<<<"network", 1000>>, <<"system", 500>>>>],
      [name |-> "des", text |-> <<"network", "design", "cat">>,
       keywords |-> <<<<"network", 800>>, <<"design", 600>>>>],
      [name |-> "dat", text |-> <<"database", "cat">>,
       keywords |-> <<<<"database", 1000>>>>],
      [name |-> "stop", text |-> <<"the", "a", "an">>, keywords |-> <<>>],
      [name |-> "long1", text |-> <<"alpha", "beta">>,
       keywords |-> ManyKeywords(1, 22, 20)],
      [name |-> "long2", text |-> <<"system", "with", "that">>,
       keywords |-> ManyKeywords(13, 21, 50)],
      [name |-> "net2", text |-> <<"network", "network", "system", "cat">>,
       keywords |-> <<<<"network", 1000>>, <<"system", 500>>>>],
      [name |-> "stop2", text |-> <<"and", "with">>, keywords |-> <<>>]>>

\* the members of a set of indices, smallest first
RECURSIVE Ascending(_)
Ascending(S) ==
    IF S = {} THEN <<>>
    ELSE LET m == CHOOSE a \in S : \A b \in S : a <= b
         IN <<m>> \o Ascending(S \ {m})

Reverse(s) == [i \in DOMAIN s |-> s[Len(s) + 1 - i]]

\* The argument lists: up to MaxPapers of the documents, in the order above
\* or in the opposite order
Batches ==
    LET picks == {S \in SUBSET DOMAIN Documents : Cardinality(S) <= MaxPapers}
        InOrder(S) == [i \in 1..Cardinality(S) |-> Documents[Ascending(S)[i]]]
    IN {InOrder(S) : S \in picks} \cup {Reverse(InOrder(S)) : S \in picks}

MinSimilarityInputs == {0, 300, 600}

MaxKeywordsInputs == {0 - 1, 0, 2, 25}

\* The library results that decide a call on docs: the cosine sample on the
\* vectorizer's path, the generator sample on the fallback path
Samples(docs) ==
    IF SimilarityPath(docs) = "cosine"
    THEN {s \in CosineSamples :
            \A t \in CosineSamples :
                t < s => CosineMatrix([i \in DOMAIN docs |-> docs[i].text], t)
                         # CosineMatrix([i \in DOMAIN docs |-> docs[i].text], s)}
         \X {0}
    ELSE IF SimilarityPath(docs) = "fallback" THEN {0} \X RandSamples
    ELSE {<<0, 0>>}

Texts(docs) == [i \in DOMAIN docs |-> docs[i].text]

\* what the libraries return to one call on docs
Library(docs, sample) ==
    [path |-> SimilarityPath(docs),
     cosine |-> CosineMatrix(Texts(docs), sample[1]),
     rand |-> RandMatrix(Len(docs), sample[2])]

LibInit ==
    /\ papers \in Batches
    /\ selected_paper = None
    /\ selected_paper_ids = <<>>
    /\ similarity_matrix = None
    /\ network_data = None
    /\ filter_input = None
    /\ min_similarity = DefaultThreshold
    /\ max_keywords = 25
    /\ shown = None
    /\ reshown = None
    /\ library = None
    /\ detail_network = None
    /\ checkboxes = <<>>
    /\ pc = "start"

\* calculate_similarity(papers)
LibSimilarity ==
    /\ pc = "start"
    /\ \E sample \in Samples(papers) :
        /\ library' = Library(papers, sample)
        /\ similarity_matrix' =
                calculate_similarity(papers, library'.cosine, library'.rand)
    /\ pc' = "similarity"
    /\ UNCHANGED <<detail_network, checkboxes>>
    /\ UNCHANGED <<papers, selected_paper, selected_paper_ids, network_data,
                   filter_input, min_similarity, max_keywords, shown, reshown>>

\* build_network_data(papers)
LibBuild ==
    /\ pc = "start"
    /\ \E sample \in Samples(papers) :
        /\ library' = Library(papers, sample)
        /\ network_data' =
                build_network_data(papers, library'.cosine, library'.rand)
    /\ pc' = "built"
    /\ UNCHANGED <<detail_network, checkboxes>>
    /\ UNCHANGED <<papers, selected_paper, selected_paper_ids, similarity_matrix,
                   filter_input, min_similarity, max_keywords, shown, reshown>>

\* filter_network_data(view, papers, s, k) for the assembled view or, before
\* assembly, for the empty view and for None
LibFilter ==
    /\ pc \in {"start", "built"}
    /\ \E view \in (IF pc = "start" THEN {_empty_network_data, None}
                    ELSE {network_data}),
          s \in MinSimilarityInputs, k \in MaxKeywordsInputs :
        /\ filter_input' = view
        /\ min_similarity' = s
        /\ max_keywords' = k
        /\ shown' = filter_network_data(view, papers, s, k)
        /\ network_data' = IF pc = "built"
                           THEN FilterInputAfter(view, papers, s, k)
                           ELSE network_data
    /\ pc' = "filtered"
    /\ UNCHANGED <<detail_network, checkboxes>>
    /\ UNCHANGED <<papers, selected_paper, selected_paper_ids, similarity_matrix,
                   reshown, library>>

\* the same call again on the view it returned
LibRefilter ==
    /\ pc = "filtered"
    /\ ~IsRaised(shown)
    /\ reshown' = filter_network_data(shown, papers, min_similarity, max_keywords)
    /\ shown' = FilterInputAfter(shown, papers, min_similarity, max_keywords)
    /\ pc' = "refiltered"
    /\ UNCHANGED <<detail_network, checkboxes>>
    /\ UNCHANGED <<papers, selected_paper, selected_paper_ids, similarity_matrix,
                   network_data, filter_input, min_similarity, max_keywords,
                   library>>

\* build_paper_detail_network(paper) for one of the documents
LibDetail ==
    /\ pc = "start"
    /\ \E d \in DOMAIN papers :
        /\ selected_paper' = papers[d]
        /\ detail_network' = build_paper_detail_network(papers[d])
    /\ pc' = "detail"
    /\ UNCHANGED checkboxes
    /\ UNCHANGED <<papers, selected_paper_ids, similarity_matrix, network_data,
                   filter_input, min_similarity, max_keywords, shown, reshown,
                   library>>

LibNext == LibSimilarity \/ LibBuild \/ LibFilter \/ LibRefilter \/ LibDetail

LibSpec == LibInit /\ [][LibNext]_vars

-----------------------------------------------------------------------------
(* extract_keywords applied to drawn texts *)

\* the largest number of whitespace-separated chunks in a text
MaxWords == 4

\* the chunks a text is made of
Vocabulary == {"test", "TEST", "example", "the", "a", "an", "cat"}

RECURSIVE TextsOfLength(_)
TextsOfLength(n) ==
    IF n = 0 THEN {<<>>}
    ELSE {Append(t, w) : t \in TextsOfLength(n - 1), w \in Vocabulary}

DrawnTexts == UNION {TextsOfLength(n) : n \in 0..MaxWords}

ExtractInit ==
    /\ papers \in {<<[name |-> "drawn", text |-> t]>> : t \in DrawnTexts}
    /\ selected_paper = None
    /\ selected_paper_ids = <<>>
    /\ similarity_matrix = None
    /\ network_data = None
    /\ filter_input = None
    /\ min_similarity = DefaultThreshold
    /\ max_keywords = 25
    /\ shown = None
    /\ reshown = None
    /\ library = None
    /\ detail_network = None
    /\ checkboxes = <<>>
    /\ pc = "text"

\* keywords = extract_keywords(text), as app.py line 44 calls it
ExtractKeywords ==
    /\ pc = "text"
    /\ papers' = <<[name |-> papers[1].name,
                    text |-> papers[1].text,
                    keywords |-> extract_keywords(papers[1].text, 30)]>>
    /\ pc' = "extracted"
    /\ UNCHANGED checkboxes
    /\ UNCHANGED <<selected_paper, selected_paper_ids, similarity_matrix,
                   network_data, filter_input, min_similarity, max_keywords,
                   shown, reshown, library, detail_network>>

ExtractNext == ExtractKeywords

ExtractSpec == ExtractInit /\ [][ExtractNext]_vars

-----------------------------------------------------------------------------
(* utils/pdf_processor.py and app.py: the session *)

\* the largest number of files in one upload (the page allows 10)
MaxUploads == 2

\* The files a user may upload: their name and what PyPDF2 makes of them, the
\* text of the pages or an exception
UploadedFiles ==
    <<[name |-> "des.pdf", readable |-> TRUE,
       text |-> <<"Network,", "design", "text", "database", "cat">>],
      [name |-> "stop.pdf", readable |-> TRUE, text |-> <<"the", "a", "an">>],
      [name |-> "sys.pdf", readable |-> TRUE,
       text |-> <<"system", "with", "that", "system">>],
      [name |-> "bad.pdf", readable |-> FALSE, text |-> <<"EOF">>]>>

\* " ".join(text.split()) of the pages' text, or the message of the exception
extract_text_from_pdf(file) ==
    IF file.readable THEN file.text
    ELSE <<"Error", "extracting", "text:">> \o file.text

\* the uploads: up to MaxUploads of the files, in the order above
Uploads ==
    {[i \in 1..Cardinality(S) |-> UploadedFiles[Ascending(S)[i]]] :
        S \in {T \in SUBSET DOMAIN UploadedFiles :
                    Cardinality(T) \in 1..MaxUploads}}

\* the slider positions tried: min_similarity of 0.0 .. 1.0, max_keywords of 5 .. 30
SliderSimilarities == {300, 600}

SliderKeywords == {5, 25}

Init ==
    /\ papers = <<>>
    /\ selected_paper = None
    /\ selected_paper_ids = <<>>
    /\ similarity_matrix = None
    /\ network_data = None
    /\ filter_input = None
    /\ min_similarity = DefaultThreshold
    /\ max_keywords = 25
    /\ shown = None
    /\ reshown = None
    /\ library = None
    /\ detail_network = None
    /\ checkboxes = <<>>
    /\ pc = "idle"

\* app.py lines 42-51: the documents made of the uploaded files
AnalysedPapers(files) ==
    [i \in DOMAIN files |->
        [id |-> i - 1,
         name |-> files[i].name,
         text |-> extract_text_from_pdf(files[i]),
         keywords |-> extract_keywords(extract_text_from_pdf(files[i]), 30)]]

\* app.py lines 52-54 for those documents.  Line 53 and line 72 of
\* network_builder.py each call calculate_similarity: the vectorizer gives
\* both the same result (sample), the generator gives each its own (first,
\* second).  A call that raises leaves no view.  `shown` is what the filter
\* call of lines 111-116 makes of the view at each position of the sliders.
Analysis(new, sample, first, second) ==
    LET cosine == CosineMatrix(Texts(new), sample)
        matrix == calculate_similarity(new, cosine, RandMatrix(Len(new), first))
        view == IF IsRaised(matrix) THEN None
                ELSE build_network_data(new, cosine,
                                        RandMatrix(Len(new), second))
    IN [papers |-> new,
        selected_paper_ids |-> [i \in DOMAIN new |-> new[i].id],
        library |-> [path |-> SimilarityPath(new), cosine |-> cosine,
                     rand |-> RandMatrix(Len(new), second)],
        first |-> RandMatrix(Len(new), first),
        similarity_matrix |-> matrix,
        network_data |-> view,
        shown |-> [s \in SliderSimilarities \cup {DefaultThreshold},
                   k \in SliderKeywords |->
                        filter_network_data(view, new, s, k)]]

\* what the analysis of each upload may come to
Analyses ==
    UNION {{Analysis(AnalysedPapers(files), s[1], s[2], t[2]) :
                s \in Samples(AnalysedPapers(files)),
                t \in Samples(AnalysedPapers(files))} :
           files \in Uploads}

\* x in xs
Holds(xs, x) == \E i \in DOMAIN xs : xs[i] = x

\* xs.remove(x) for a list that holds x
ListRemove(xs, x) ==
    LET at == CHOOSE i \in DOMAIN xs :
                    xs[i] = x /\ \A h \in 1..(i - 1) : xs[h] # x
    IN [i \in 1..(Len(xs) - 1) |-> IF i < at THEN xs[i] ELSE xs[i + 1]]

\* app.py lines 76-87, from the check box idx on: a check box the last run
\* drew keeps its state, a new one starts at `value`; the ids follow the box
RECURSIVE DrawCheckboxes(_, _, _, _)
DrawCheckboxes(docs, ids, boxes, idx) ==
    IF idx >= Len(docs)
    THEN [selected_paper_ids |-> ids,
          checkboxes |-> [i \in 0..(Len(docs) - 1) |-> boxes[i]]]
    ELSE LET paper == docs[idx + 1]
             is_selected == IF idx \in DOMAIN boxes THEN boxes[idx]
                            ELSE Holds(ids, paper.id)
             followed ==
                IF is_selected /\ ~Holds(ids, paper.id)
                THEN Append(ids, paper.id)
                ELSE IF ~is_selected /\ Holds(ids, paper.id)
                THEN ListRemove(ids, paper.id)
                ELSE ids
         IN DrawCheckboxes(docs, followed,
                [i \in DOMAIN boxes \cup {idx} |->
                    IF i = idx THEN is_selected ELSE boxes[i]],
                idx + 1)

\* app.py lines 118-304: the rest of the main tab is drawn, the detail
\* button with it, when the filter call returned a view
MainTabDrawn == papers # <<>> /\ shown # None /\ ~IsRaised(shown)

\* app.py lines 40-55, the analysis button, and the rest of the script run,
\* which draws the page with the sliders where they stand.  A call that
\* raises ends the run where it stands.
Analyze ==
    \E run \in Analyses :
        /\ papers' = run.papers
        /\ library' = run.library
        /\ IF IsRaised(run.similarity_matrix)
           THEN /\ pc' = "aborted"
                /\ selected_paper_ids' = run.selected_paper_ids
                /\ UNCHANGED <<similarity_matrix, network_data, filter_input,
                               shown, checkboxes>>
           ELSE LET boxes == DrawCheckboxes(run.papers, run.selected_paper_ids,
                                            checkboxes, 0)
                IN /\ pc' = "analysed"
                   /\ similarity_matrix' = run.similarity_matrix
                   /\ network_data' =
                        FilterInputAfter(run.network_data, run.papers,
                                         min_similarity, max_keywords)
                   /\ selected_paper_ids' = boxes.selected_paper_ids
                   /\ checkboxes' = boxes.checkboxes
                   /\ filter_input' = run.network_data
                   /\ shown' = run.shown[min_similarity, max_keywords]
        /\ UNCHANGED <<selected_paper, min_similarity, max_keywords, reshown,
                       detail_network>>

\* app.py lines 76-87: a check box is clicked and the page drawn again
ToggleCheckbox ==
    /\ papers # <<>>
    /\ \E idx \in DOMAIN checkboxes :
        LET boxes == DrawCheckboxes(papers, selected_paper_ids,
                                    [checkboxes EXCEPT ![idx] = ~@], 0)
        IN /\ selected_paper_ids' = boxes.selected_paper_ids
           /\ checkboxes' = boxes.checkboxes
    /\ filter_input' = network_data
    /\ shown' = filter_network_data(network_data, papers, min_similarity,
                                    max_keywords)
    /\ network_data' = FilterInputAfter(network_data, papers, min_similarity,
                                        max_keywords)
    /\ UNCHANGED <<papers, selected_paper, similarity_matrix, min_similarity,
                   max_keywords, reshown, library, detail_network, pc>>

\* app.py lines 89-116: a slider is moved and the main tab drawn with the
\* sliders at s and k
Render ==
    /\ papers # <<>>
    /\ \E s \in SliderSimilarities, k \in SliderKeywords :
        /\ filter_input' = network_data
        /\ min_similarity' = s
        /\ max_keywords' = k
        /\ shown' = filter_network_data(network_data, papers, s, k)
        /\ network_data' = FilterInputAfter(network_data, papers, s, k)
    /\ UNCHANGED <<detail_network, checkboxes>>
    /\ UNCHANGED <<papers, selected_paper, selected_paper_ids, similarity_matrix,
                   reshown, library, pc>>

\* app.py lines 300-304: the detail button with a name chosen in the select
\* box; the rerun draws the detail tab (lines 307-313)
ShowDetail ==
    /\ MainTabDrawn
    /\ \E i \in DOMAIN papers :
        selected_paper' =
            papers[CHOOSE j \in DOMAIN papers :
                    /\ papers[j].name = papers[i].name
                    /\ \A h \in 1..(j - 1) : papers[h].name # papers[i].name]
    /\ detail_network' = build_paper_detail_network(selected_paper')
    /\ UNCHANGED <<papers, selected_paper_ids, similarity_matrix, network_data,
                   filter_input, min_similarity, max_keywords, shown, reshown,
                   library, checkboxes, pc>>

\* app.py lines 372-374: the back button of the detail tab
Back ==
    /\ MainTabDrawn
    /\ selected_paper # None
    /\ selected_paper' = None
    /\ detail_network' = None
    /\ UNCHANGED <<papers, selected_paper_ids, similarity_matrix, network_data,
                   filter_input, min_similarity, max_keywords, shown, reshown,
                   library, checkboxes, pc>>

Next == Analyze \/ ToggleCheckbox \/ Render \/ ShowDetail \/ Back

Spec == Init /\ [][Next]_vars

-----------------------------------------------------------------------------
(* app.py: an analysis run that is ended before its last assignment *)

\* one analysis of each upload
OneOfEach ==
    {CHOOSE run \in Analyses : run.papers = new :
        new \in {run.papers : run \in Analyses}}

\* The places an analysis may be ended at: after `done` documents, after the
\* ids (Len + 1), after the matrix (Len + 2).  What the libraries return shows
\* only in the last, so the others are taken for one analysis of each upload.
Stages(run) ==
    IF run \in OneOfEach THEN 0..(Len(run.papers) + 2)
    ELSE {Len(run.papers) + 2}

\* app.py lines 40-55 ended part-way.  The handler stores its results one
\* after another in st.session_state: `done` of the documents are appended
\* (lines 41-51), then the ids are stored (line 52), then the matrix (line
\* 53), then the view (line 54).  Streamlit ends a script run at an access
\* to st.session_state when the user stops the run or asks for a new one,
\* and an exception of a step ends it as well; nothing the run stored is
\* taken back.  The run that follows draws the page from what is left.
AnalyzeInterrupted ==
    \E run \in Analyses :
        \E done \in Stages(run) :
            LET appended == IF done < Len(run.papers)
                            THEN SubSeq(run.papers, 1, done) ELSE run.papers
                ids == IF done > Len(run.papers) THEN run.selected_paper_ids
                       ELSE selected_paper_ids
                boxes == DrawCheckboxes(appended, ids, checkboxes, 0)
            IN /\ papers' = appended
               /\ similarity_matrix' =
                    IF done > Len(run.papers) + 1 THEN run.similarity_matrix
                    ELSE similarity_matrix
               /\ library' =
                    IF done > Len(run.papers) + 1
                    THEN [run.library EXCEPT !.rand = run.first]
                    ELSE library
               /\ IF appended = <<>>
                  THEN /\ selected_paper_ids' = ids
                       /\ checkboxes' = <<>>
                       /\ UNCHANGED <<filter_input, shown, network_data>>
                  ELSE /\ selected_paper_ids' = boxes.selected_paper_ids
                       /\ checkboxes' = boxes.checkboxes
                       /\ filter_input' = network_data
                       /\ shown' = filter_network_data(network_data, appended,
                                        min_similarity, max_keywords)
                       /\ network_data' =
                            FilterInputAfter(network_data, appended,
                                             min_similarity, max_keywords)
               /\ pc' = "interrupted"
               /\ UNCHANGED <<selected_paper, min_similarity, max_keywords,
                              reshown, detail_network>>

InterruptNext == Analyze \/ AnalyzeInterrupted

InterruptSpec == Init /\ [][InterruptNext]_vars

-----------------------------------------------------------------------------
(* build_network_data and filter_network_data applied to values that are no
   number *)

\* Documents with a score that is NaN or infinite; "inf" and "neg" together
\* give the term beta the weight inf + -inf = NaN
HygieneDocuments ==
    <<[name |-> "nan", text |-> <<"network", "cat">>,
       keywords |-> <<<<"alpha", NaN>>>>],
      [name |-> "inf", text |-> <<"network", "design">>,
       keywords |-> <<<<"beta", PosInf>>>>],
      [name |-> "neg", text |-> <<"design", "cat">>,
       keywords |-> <<<<"beta", NegInf>>>>],
      [name |-> "fin", text |-> <<"database", "cat">>,
       keywords |-> <<<<"gamma", 800>>, <<"delta", 400>>>>],
      [name |-> "fin2", text |-> <<"database", "design">>,
       keywords |-> <<<<"gamma", 600>>>>]>>

\* sorted() is given weights it can order: no NaN beside another weight
\* (where it stands then depends on the steps of the sort, which most_common
\* is not modelled down to)
OrderedWeights(docs) ==
    (\E i \in DOMAIN CollectKeywords(docs) : IsNaN(CollectKeywords(docs)[i][2]))
        => Len(CollectKeywords(docs)) = 1

\* the argument lists: up to MaxPapers of those documents, in the order above
HygieneBatches ==
    {docs \in {[i \in 1..Cardinality(S) |-> HygieneDocuments[Ascending(S)[i]]] :
                S \in {T \in SUBSET DOMAIN HygieneDocuments :
                        Cardinality(T) \in 1..MaxPapers}} :
        OrderedWeights(docs)}

\* the values a similarity may have: NaN, the infinities, 0.4
Similarities == {NaN, PosInf, NegInf, 400}

\* an n x n matrix, symmetric with 1.0 on its diagonal, that has v for the
\* documents 0 and 1 and 0.4 for every other pair
MatrixWith(n, v) ==
    Array([i \in 0..(n - 1) |-> [j \in 0..(n - 1) |->
            IF i = j THEN 1000
            ELSE IF {i, j} = {0, 1} THEN v
            ELSE 400]])

HygieneInit ==
    /\ papers \in HygieneBatches
    /\ selected_paper = None
    /\ selected_paper_ids = <<>>
    /\ similarity_matrix = None
    /\ network_data = None
    /\ filter_input = None
    /\ min_similarity = DefaultThreshold
    /\ max_keywords = 25
    /\ shown = None
    /\ reshown = None
    /\ library = None
    /\ detail_network = None
    /\ checkboxes = <<>>
    /\ pc = "start"

\* build_network_data(papers) when cosine_similarity returns a matrix with v
HygieneBuild ==
    /\ pc = "start"
    /\ \E v \in Similarities :
        /\ library' = [path |-> SimilarityPath(papers),
                       cosine |-> MatrixWith(Len(papers), v),
                       rand |-> RandMatrix(Len(papers), 1)]
        /\ network_data' =
                build_network_data(papers, library'.cosine, library'.rand)
    /\ pc' = "built"
    /\ UNCHANGED <<papers, selected_paper, selected_paper_ids, similarity_matrix,
                   filter_input, min_similarity, max_keywords, shown, reshown,
                   detail_network, checkboxes>>

\* filter_network_data(view, papers, s, 25) for the assembled view with a
\* matrix that has v in it
HygieneFilter ==
    /\ pc = "built"
    /\ \E v \in Similarities, s \in MinSimilarityInputs :
        /\ filter_input' =
                [network_data EXCEPT
                    !.similarity_matrix = MatrixWith(Len(papers), v)]
        /\ min_similarity' = s
        /\ shown' = filter_network_data(filter_input', papers, s, 25)
    /\ pc' = "filtered"
    /\ UNCHANGED <<papers, selected_paper, selected_paper_ids, similarity_matrix,
                   network_data, max_keywords, reshown, library, detail_network,
                   checkboxes>>

HygieneNext == HygieneBuild \/ HygieneFilter

HygieneSpec == HygieneInit /\ [][HygieneNext]_vars

-----------------------------------------------------------------------------
(* Reading a view *)

\* the segments a polyline of runs (start, end, None) draws
Segments(xs, ys, zs) ==
    {<<[x |-> xs[3 * k - 2], y |-> ys[3 * k - 2], z |-> zs[3 * k - 2]],
       [x |-> xs[3 * k - 1], y |-> ys[3 * k - 1], z |-> zs[3 * k - 1]]>> :
        k \in 1..(Len(xs) \div 3)}

DocSegments(view) == Segments(view.edge_x, view.edge_y, view.edge_z)

KeywordSegments(view) ==
    Segments(view.keyword_edge_x, view.keyword_edge_y, view.keyword_edge_z)

\* where document i of the current documents is placed
DocPosition(i) == SpherePoint(i, Len(papers), radius_outer)

DocPairs == {p \in (0..(Len(papers) - 1)) \X (0..(Len(papers) - 1)) : p[1] < p[2]}

SomeKeyword == \E d \in DOMAIN papers : HasKeywords(papers[d])

\* the similarity of the current documents, as calculate_similarity gave it
DocsSimilarity == calculate_similarity(papers, library.cosine, library.rand)

\* every term of the documents' first-20 slices
SlicedTerms == {SlicedKeywords(papers)[k][1] : k \in DOMAIN SlicedKeywords(papers)}

\* labels are the n heaviest terms of the documents' first-20 slices, heaviest
\* first, a term that appeared earlier ahead of one of the same weight
IsTopTerms(labels, n) ==
    LET pairs == SlicedKeywords(papers)
        At(t) == {k \in DOMAIN pairs : pairs[k][1] = t}
        Weight == [t \in SlicedTerms |-> SumScores(pairs, At(t))]
        Seen == [t \in SlicedTerms |-> CHOOSE k \in At(t) : \A j \in At(t) : k <= j]
        Ahead(a, b) ==
            \/ Weight[a] > Weight[b]
            \/ Weight[a] = Weight[b] /\ Seen[a] < Seen[b]
    IN /\ Len(labels) = Min(n, Cardinality(SlicedTerms))
       /\ Range(labels) \subseteq SlicedTerms
       /\ \A p, q \in DOMAIN labels : p < q => Ahead(labels[p], labels[q])
       /\ \A t \in SlicedTerms \ Range(labels) :
            \A l \in Range(labels) : Ahead(l, t)

\* document i+1's own score for term t, within its first 20 keywords, is above s
ScoresAbove(i, t, s) ==
    /\ "keywords" \in DOMAIN papers[i + 1]
    /\ \E k \in 1..Min(20, Len(papers[i + 1].keywords)) :
        /\ papers[i + 1].keywords[k][1] = t
        /\ papers[i + 1].keywords[k][2] > s

-----------------------------------------------------------------------------
(* C1 *)

\* C1 as stated: in the view build_network_data returns, for every pair of
\* documents i < j there is an edge between their positions if and only if
\* their similarity is above 0.3.
C1_EdgeIffSimilar ==
    pc = "built" =>
        \A p \in DocPairs :
            <<DocPosition(p[1]), DocPosition(p[2])>> \in DocSegments(network_data)
                <=> Entry(DocsSimilarity, p[1], p[2]) > 300

\* C1 amended: when some document has a keyword, the view retains the
\* documents' similarity matrix, and for every pair i < j there is an edge
\* between positions i and j if and only if the matrix entry is above 0.3, and
\* there is no other edge; when no document has a keyword the view is the
\* empty view, without edges whatever the similarity.
C1_EdgeIffSimilarWithKeywords ==
    pc = "built" =>
        IF SomeKeyword
        THEN /\ network_data.similarity_matrix = DocsSimilarity
             /\ \A p \in DocPairs :
                    <<DocPosition(p[1]), DocPosition(p[2])>>
                            \in DocSegments(network_data)
                        <=> Entry(network_data.similarity_matrix, p[1], p[2]) > 300
             /\ Len(network_data.edge_x) =
                    3 * Cardinality({p \in DocPairs :
                            Entry(network_data.similarity_matrix, p[1], p[2]) > 300})
        ELSE DocSegments(network_data) = {}

\* the scenario's matrix [[1, .4, .1], [.4, 1, .05], [.1, .05, 1]] gives
\* exactly one edge, between documents 0 and 1
C1_Witness ==
    /\ pc = "built"
    /\ Len(papers) = 3
    /\ SomeKeyword
    /\ Entry(network_data.similarity_matrix, 0, 1) = 400
    /\ Entry(network_data.similarity_matrix, 0, 2) = 100
    /\ Entry(network_data.similarity_matrix, 1, 2) = 50
    /\ DocSegments(network_data) = {<<DocPosition(0), DocPosition(1)>>}

-----------------------------------------------------------------------------
(* C2 *)

\* C2 as stated: the keyword nodes are the top 25 terms by aggregate weight
\* over the documents' first 20 keywords, ties by first appearance, and never
\* more than 25.
C2_Top25 ==
    pc = "built" =>
        /\ Len(network_data.keyword_labels) <= 25
        /\ IsTopTerms(network_data.keyword_labels, 25)

\* C2 amended: the keyword nodes are the top 30 terms by aggregate weight over
\* the documents' first 20 keywords, ties by first appearance, and never more
\* than 30.
C2_Top30 ==
    pc = "built" =>
        /\ Len(network_data.keyword_labels) <= 30
        /\ IsTopTerms(network_data.keyword_labels, 30)

\* more than 30 terms to choose from, 30 kept
C2_Witness ==
    /\ pc = "built"
    /\ Cardinality(SlicedTerms) > 30
    /\ Len(network_data.keyword_labels) = 30

-----------------------------------------------------------------------------
(* C3 *)

\* C3: in the view build_network_data returns there is an edge from document
\* i to term t if and only if t is among the document's first 20 keywords, t
\* is a keyword node of the view and the document's score for t is above 0.3;
\* there is no other document-keyword edge.
C3_KeywordEdgeIff ==
    pc = "built" =>
        LET Present(i, t) ==
                /\ t \in DOMAIN network_data.keyword_positions
                /\ <<DocPosition(i), network_data.keyword_positions[t]>>
                        \in KeywordSegments(network_data)
            Due(i, t) ==
                /\ t \in Range(network_data.keyword_labels)
                /\ ScoresAbove(i, t, 300)
            all == (0..(Len(papers) - 1)) \X SlicedTerms
        IN /\ \A e \in all : Present(e[1], e[2]) <=> Due(e[1], e[2])
           /\ Len(network_data.keyword_edge_x) =
                3 * Cardinality({e \in all : Due(e[1], e[2])})

\* the scenario: 0-network, 0-system, 1-network, 1-design, 2-database
C3_Witness ==
    /\ pc = "built"
    /\ Len(papers) = 3
    /\ Range(network_data.keyword_labels) = {"network", "system", "design", "database"}
    /\ papers[1].keywords = <<<<"network", 1000>>, <<"system", 500>>>>
    /\ papers[2].keywords = <<<<"network", 800>>, <<"design", 600>>>>
    /\ papers[3].keywords = <<<<"database", 1000>>>>
    /\ KeywordSegments(network_data) =
        {<<DocPosition(0), network_data.keyword_positions["network"]>>,
         <<DocPosition(0), network_data.keyword_positions["system"]>>,
         <<DocPosition(1), network_data.keyword_positions["network"]>>,
         <<DocPosition(1), network_data.keyword_positions["design"]>>,
         <<DocPosition(2), network_data.keyword_positions["database"]>>}

-----------------------------------------------------------------------------
(* C4 *)

\* the keyword nodes and both edge classes of a view
KeywordsAndEdges(view) ==
    <<view.keyword_labels, view.keyword_x, view.keyword_y, view.keyword_z,
      view.keyword_hover,
      view.edge_x, view.edge_y, view.edge_z,
      view.keyword_edge_x, view.keyword_edge_y, view.keyword_edge_z>>

\* a filter call on the view assembled from the current documents
FilteredAssembled ==
    /\ pc \in {"filtered", "refiltered"}
    /\ network_data # None
    /\ filter_input = network_data

\* C4: filtering the filtered view again, with the same documents, threshold
\* and keyword limit, changes neither the keyword nodes nor the edges, for
\* every integer keyword limit.
C4_Idempotent ==
    (pc = "refiltered" /\ FilteredAssembled) =>
        /\ ~IsRaised(reshown)
        /\ KeywordsAndEdges(reshown) = KeywordsAndEdges(shown)

-----------------------------------------------------------------------------
(* C5 *)

\* C5: with a limit below the keyword count the five keyword arrays of the
\* result are the first max_keywords entries of the input's, in order (none
\* of them for a limit of 0 or less); with a limit at or above the count they
\* are the input's; the five arrays have one length.
C5_FirstMaxKeywords ==
    FilteredAssembled =>
        LET count == Len(filter_input.keyword_labels)
            kept == IF max_keywords >= count THEN count
                    ELSE IF max_keywords < 0 THEN 0
                    ELSE max_keywords
            FirstOf(after, before) ==
                /\ Len(after) = kept
                /\ \A p \in 1..kept : after[p] = before[p]
        IN /\ FirstOf(shown.keyword_labels, filter_input.keyword_labels)
           /\ FirstOf(shown.keyword_x, filter_input.keyword_x)
           /\ FirstOf(shown.keyword_y, filter_input.keyword_y)
           /\ FirstOf(shown.keyword_z, filter_input.keyword_z)
           /\ FirstOf(shown.keyword_hover, filter_input.keyword_hover)

-----------------------------------------------------------------------------
(* C6 *)

\* C6: the edges of filter_network_data(v, docs, s, k), v assembled from docs,
\* are those of the assembly rules with s for 0.3: an edge between documents
\* i < j if and only if the retained similarity is above s, an edge from
\* document i to term t if and only if t is a keyword node of the result, t is
\* among the document's first 20 keywords and its score is above s, and no
\* other edge; so with s = 0.3 and k at least the keyword count the edges are
\* those of v.
C6_FilterEdges ==
    FilteredAssembled =>
        LET matrix == network_data.similarity_matrix
            Similar(p) ==
                /\ HasEntry(matrix, p[1], p[2])
                /\ Entry(matrix, p[1], p[2]) > min_similarity
            Present(i, t) ==
                /\ t \in DOMAIN network_data.keyword_positions
                /\ <<DocPosition(i), network_data.keyword_positions[t]>>
                        \in KeywordSegments(shown)
            Due(i, t) ==
                /\ t \in Range(shown.keyword_labels)
                /\ ScoresAbove(i, t, min_similarity)
            all == (0..(Len(papers) - 1)) \X SlicedTerms
        IN /\ ~IsRaised(shown)
           /\ \A p \in DocPairs :
                <<DocPosition(p[1]), DocPosition(p[2])>> \in DocSegments(shown)
                    <=> Similar(p)
           /\ Len(shown.edge_x) = 3 * Cardinality({p \in DocPairs : Similar(p)})
           /\ \A e \in all : Present(e[1], e[2]) <=> Due(e[1], e[2])
           /\ Len(shown.keyword_edge_x) =
                3 * Cardinality({e \in all : Due(e[1], e[2])})
           /\ (min_similarity = 300
                    /\ max_keywords >= Len(network_data.keyword_labels)) =>
                KeywordsAndEdges(shown) = KeywordsAndEdges(network_data)

\* a filter call that cut keyword nodes and with them a document-keyword edge,
\* raised the threshold above an edge of the view and kept another
C6_Witness ==
    /\ FilteredAssembled
    /\ min_similarity = 600
    /\ Len(shown.keyword_labels) < Len(network_data.keyword_labels)
    /\ DocSegments(shown) # {}
    /\ DocSegments(shown) # DocSegments(network_data)
    /\ KeywordSegments(shown) # {}
    /\ \E i \in 0..(Len(papers) - 1) :
        \E t \in Range(network_data.keyword_labels) \ Range(shown.keyword_labels) :
            ScoresAbove(i, t, 600)

-----------------------------------------------------------------------------
(* C7 *)

NodeAndEdgeSequences(view) ==
    <<view.edge_x, view.edge_y, view.edge_z,
      view.keyword_edge_x, view.keyword_edge_y, view.keyword_edge_z,
      view.paper_x, view.paper_y, view.paper_z,
      view.paper_labels, view.paper_hover, view.paper_ids,
      view.keyword_x, view.keyword_y, view.keyword_z,
      view.keyword_labels, view.keyword_hover>>

\* C7: for no documents, and for documents none of which has a keyword,
\* build_network_data does not raise and returns the empty view: every node,
\* label, hover and edge sequence is empty.
C7_EmptyView ==
    (pc = "built" /\ ~SomeKeyword) =>
        /\ ~IsRaised(network_data)
        /\ \A k \in DOMAIN NodeAndEdgeSequences(network_data) :
            NodeAndEdgeSequences(network_data)[k] = <<>>
        /\ network_data = _empty_network_data

\* two documents without a keyword
C7_Witness ==
    /\ pc = "built"
    /\ Len(papers) = 2
    /\ ~SomeKeyword
    /\ network_data.paper_x = <<>>

-----------------------------------------------------------------------------
(* C8 *)

\* C8: filter_network_data returns its input unchanged when the input carries
\* no similarity matrix, and when the input is the empty view it does not
\* raise and returns the empty view, for any documents, threshold and limit.
C8_EmptyViewUnchanged ==
    (/\ pc = "filtered"
     /\ network_data = None
     /\ filter_input \in {None, _empty_network_data}) =>
        shown = filter_input

-----------------------------------------------------------------------------
(* C9 *)

\* C9: the matrix calculate_similarity returns is symmetric with 1.0 on the
\* diagonal on every path, and is [[1.0]] for a single document.
C9_SymmetricUnitDiagonal ==
    pc = "similarity" =>
        LET rows == similarity_matrix.ndarray
        IN /\ \A i \in DOMAIN rows : \A j \in DOMAIN rows[i] :
                /\ rows[i][j] = rows[j][i]
                /\ i = j => rows[i][j] = 1000
           /\ Len(papers) = 1 => similarity_matrix = Array([i \in {0} |-> [j \in {0} |-> 1000]])

-----------------------------------------------------------------------------
(* C10 *)

\* C10: calculate_similarity never raises to the analysis handler: the handler
\* always gets past it to build_network_data, and for two or more documents
\* whose vectorization fails the matrix it stores is n x n with every entry in
\* [0.3, 0.8].
C10_NeverRaises ==
    /\ pc # "aborted"
    /\ pc = "analysed" =>
        /\ ~IsRaised(similarity_matrix)
        /\ network_data # None
        /\ ~IsRaised(network_data)
        /\ library.path = "fallback" =>
            /\ DOMAIN similarity_matrix.ndarray = 0..(Len(papers) - 1)
            /\ \A i \in 0..(Len(papers) - 1) :
                /\ DOMAIN similarity_matrix.ndarray[i] = 0..(Len(papers) - 1)
                /\ \A j \in 0..(Len(papers) - 1) :
                    /\ similarity_matrix.ndarray[i][j] >= 300
                    /\ similarity_matrix.ndarray[i][j] <= 800

\* an analysis of two files without a token for the vectorizer, one of them
\* with keywords: the fallback matrix is stored and the view assembled
C10_Witness ==
    /\ pc = "analysed"
    /\ Len(papers) = 2
    /\ library.path = "fallback"
    /\ similarity_matrix.ndarray[0][1] > 300
    /\ network_data.keyword_labels # <<>>

-----------------------------------------------------------------------------
(* C11 *)

\* points are the n = Len(points) placements on the sphere of radius r (in
\* tenths): pairwise different; for n >= 2 the point of index i has
\* y = r * (1 - 2i/(n-1)), strictly decreasing in i; for n = 1 it is (0, r, 0)
IsSpherePlacement(points, r) ==
    LET n == Len(points)
    IN /\ \A i, j \in 1..n : i < j => points[i] # points[j]
       /\ n >= 2 =>
            /\ \A i \in 1..n :
                points[i].y = Rational(r * (n - 1 - 2 * (i - 1)), 10 * (n - 1))
            /\ \A i \in 1..(n - 1) :
                points[i].y.num * points[i + 1].y.den
                    > points[i + 1].y.num * points[i].y.den
       /\ n = 1 =>
            points[1] = [x |-> Rational(0, 1), y |-> Rational(r, 10),
                         z |-> Rational(0, 1)]

\* C11: the documents of an assembled view, its keywords, and the keywords of
\* a detail view are placed on their spheres: as many positions as items, no
\* two the same, y falling with the index from r to -r, and a single item at
\* (0, r, 0).
C11_SpherePlacement ==
    /\ (pc = "built" /\ SomeKeyword) =>
        LET labels == network_data.keyword_labels
        IN /\ DOMAIN network_data.paper_positions = 0..(Len(papers) - 1)
           /\ IsSpherePlacement(
                [i \in 1..Len(papers) |-> network_data.paper_positions[i - 1]],
                radius_outer)
           /\ DOMAIN network_data.keyword_positions = Range(labels)
           /\ Cardinality(Range(labels)) = Len(labels)
           /\ IsSpherePlacement(
                [i \in 1..Len(labels) |-> network_data.keyword_positions[labels[i]]],
                radius_inner)
    /\ pc = "detail" =>
        LET n == Min(25, Len(selected_paper.keywords))
        IN /\ Len(detail_network.node_x) = n
           /\ Len(detail_network.node_y) = n
           /\ Len(detail_network.node_z) = n
           /\ IsSpherePlacement(
                [i \in 1..n |-> [x |-> detail_network.node_x[i],
                                 y |-> detail_network.node_y[i],
                                 z |-> detail_network.node_z[i]]], 10)

\* one document, at (0, 3, 0), with two keywords, at y = 1.5 and y = -1.5
C11_Witness ==
    /\ pc = "built"
    /\ Len(papers) = 1
    /\ SomeKeyword
    /\ network_data.paper_positions[0] =
            [x |-> Rational(0, 1), y |-> Rational(3, 1), z |-> Rational(0, 1)]
    /\ Len(network_data.keyword_labels) = 2
    /\ network_data.keyword_y = <<Rational(3, 2), Rational(0 - 3, 2)>>

-----------------------------------------------------------------------------
(* C12 *)

\* the words of the current text that qualify: lower-cased, cut at every
\* other character, not a stop word, longer than three letters
QualifyingWords ==
    SelectSeq(SplitWords(papers[1].text),
              LAMBDA w : w \notin STOP_WORDS /\ Len(w) > 3)

Frequency(term) ==
    Cardinality({k \in DOMAIN QualifyingWords : QualifyingWords[k] = term})

MaxFrequency ==
    CHOOSE m \in {Frequency(t) : t \in Range(QualifyingWords)} :
        \A t \in Range(QualifyingWords) : Frequency(t) <= m

\* every qualifying term once, scored frequency / max frequency (in
\* thousandths, cut), and nothing for a text without a qualifying term
ScoredByFrequency ==
    LET keywords == papers[1].keywords
    IN /\ QualifyingWords = <<>> => keywords = <<>>
       /\ {keywords[k][1] : k \in DOMAIN keywords} = Range(QualifyingWords)
       /\ Len(keywords) = Cardinality(Range(QualifyingWords))
       /\ \A k \in DOMAIN keywords :
            keywords[k][2] = (Frequency(keywords[k][1]) * 1000) \div MaxFrequency

\* C12 as stated: each term scores frequency / max frequency; a text without
\* a qualifying term gives the empty sequence; "test test test example" gives
\* test 1.0 and example 0.25.
C12_ExampleQuarter ==
    pc = "extracted" =>
        /\ ScoredByFrequency
        /\ papers[1].text = <<"test", "test", "test", "example">> =>
            papers[1].keywords = <<<<"test", 1000>>, <<"example", 250>>>>

\* C12 amended: each term scores frequency / max frequency; a text without a
\* qualifying term ("a an the") gives the empty sequence; "test test test
\* example" gives test 1.0 and example 1/3 (0.333...), not 0.25.
C12_ExampleThird ==
    pc = "extracted" =>
        /\ ScoredByFrequency
        /\ papers[1].text = <<"a", "an", "the">> => papers[1].keywords = <<>>
        /\ papers[1].text = <<"test", "test", "test", "example">> =>
            papers[1].keywords = <<<<"test", 1000>>, <<"example", 333>>>>

\* the keywords of "test test test example"
C12_Witness ==
    /\ pc = "extracted"
    /\ papers[1].text = <<"test", "test", "test", "example">>
    /\ Len(papers[1].keywords) = 2

-----------------------------------------------------------------------------
(* C13 *)

\* C13: an analysis that fails part-way leaves the session's documents,
\* similarity matrix and view as they were; the three are replaced together
\* or not at all, so in every reachable session the matrix and the view are
\* those an analysis made of the documents the session holds (or all three
\* are as the session began).
C13_ReplacedTogether ==
    \/ /\ papers = <<>>
       /\ similarity_matrix = None
       /\ network_data = None
    \/ \E run \in Analyses :
        /\ papers = run.papers
        /\ similarity_matrix = run.similarity_matrix
        /\ network_data = run.network_data

-----------------------------------------------------------------------------
(* C14 *)

\* C14: the similarity matrix is built once per document set: after every
\* analysis the matrix stored in the session is the matrix retained in the
\* session's view, on the random fallback path as well.
C14_BuiltOnce ==
    pc = "analysed" => network_data.similarity_matrix = similarity_matrix

-----------------------------------------------------------------------------
(* C15 *)

\* the returned view has the document nodes, the retained matrix and the
\* position maps of the input
SameDocuments(returned, input) ==
    /\ returned.paper_x = input.paper_x
    /\ returned.paper_y = input.paper_y
    /\ returned.paper_z = input.paper_z
    /\ returned.paper_labels = input.paper_labels
    /\ returned.paper_hover = input.paper_hover
    /\ returned.paper_ids = input.paper_ids
    /\ returned.similarity_matrix = input.similarity_matrix
    /\ returned.paper_positions = input.paper_positions
    /\ returned.keyword_positions = input.keyword_positions

\* C15: filter_network_data is a pure post-filter: the view it returns has the
\* document nodes, the retained matrix and the position maps of its input, and
\* the input view, the one the session stores, is after any sequence of filter
\* calls still the view build_network_data assembled.
C15_PureFilter ==
    /\ (pc \in {"analysed", "filtered", "refiltered"} /\ network_data # None) =>
            network_data = build_network_data(papers, library.cosine,
                                              library.rand)
    /\ (/\ pc \in {"analysed", "filtered"}
        /\ filter_input # None
        /\ ~IsRaised(shown)) =>
            /\ SameDocuments(shown, filter_input)
            /\ pc = "analysed" => filter_input = network_data
    /\ (pc = "refiltered" /\ shown # None /\ ~IsRaised(reshown)) =>
            SameDocuments(reshown, shown)

\* the sliders were moved after an analysis of two documents, and the view
\* drawn has lost a document edge the stored view has
C15_Witness ==
    /\ pc = "analysed"
    /\ Len(papers) = 2
    /\ min_similarity # DefaultThreshold
    /\ network_data.edge_x # <<>>
    /\ shown.edge_x = <<>>

-----------------------------------------------------------------------------
(* C16 *)

\* xs, ys, zs are made of `edges` runs (start, end, None): equal lengths of
\* 3 * edges, and the gap marker at the positions 2, 5, 8, ... (counted from
\* 0, so every third here) and nowhere else
IsEdgeRuns(xs, ys, zs, edges) ==
    /\ Len(xs) = 3 * edges
    /\ Len(ys) = 3 * edges
    /\ Len(zs) = 3 * edges
    /\ \A p \in 1..(3 * edges) :
        /\ xs[p] = None <=> p % 3 = 0
        /\ ys[p] = None <=> p % 3 = 0
        /\ zs[p] = None <=> p % 3 = 0

\* both edge classes of a view are made of runs, as many as it has segments
HasEdgeRuns(view) ==
    /\ IsEdgeRuns(view.edge_x, view.edge_y, view.edge_z,
                  Len(view.edge_x) \div 3)
    /\ IsEdgeRuns(view.keyword_edge_x, view.keyword_edge_y, view.keyword_edge_z,
                  Len(view.keyword_edge_x) \div 3)

\* the document pairs whose entry of the matrix is above the threshold
SimilarPairs(matrix, threshold) ==
    {p \in DocPairs : /\ HasEntry(matrix, p[1], p[2])
                      /\ Entry(matrix, p[1], p[2]) > threshold}

\* the documents and terms among labels with a score above the threshold
ScoredTerms(labels, threshold) ==
    {e \in (0..(Len(papers) - 1)) \X SlicedTerms :
        e[2] \in Range(labels) /\ ScoresAbove(e[1], e[2], threshold)}

\* C16: in every view build_network_data and filter_network_data return, an
\* edge contributes the run (start, end, None) to each of the x, y and z
\* sequences of its class: the three have equal length, 3 times the number
\* of edges, and the gap marker is at the positions 2, 5, 8, ... and only
\* there.
C16_EdgeRuns ==
    /\ pc = "built" =>
        /\ HasEdgeRuns(network_data)
        /\ SomeKeyword =>
            /\ Len(network_data.edge_x) =
                3 * Cardinality(SimilarPairs(network_data.similarity_matrix, 300))
            /\ Len(network_data.keyword_edge_x) =
                3 * Cardinality(ScoredTerms(network_data.keyword_labels, 300))
    /\ (pc = "filtered" /\ shown # None /\ ~IsRaised(shown)) =>
        /\ HasEdgeRuns(shown)
        /\ FilteredAssembled =>
            /\ Len(shown.edge_x) =
                3 * Cardinality(SimilarPairs(network_data.similarity_matrix,
                                             min_similarity))
            /\ Len(shown.keyword_edge_x) =
                3 * Cardinality(ScoredTerms(shown.keyword_labels,
                                            min_similarity))
    /\ (pc = "refiltered" /\ reshown # None /\ ~IsRaised(reshown)) =>
        HasEdgeRuns(reshown)

\* a filtered view of three documents with two document edges and a keyword
\* edge: six entries a coordinate, the third and the sixth the gap marker
C16_Witness ==
    /\ pc = "filtered"
    /\ Len(papers) = 3
    /\ ~IsRaised(shown)
    /\ shown # None
    /\ Len(shown.edge_x) = 6
    /\ shown.edge_x[3] = None
    /\ shown.edge_y[6] = None
    /\ shown.edge_z[5] # None
    /\ Len(shown.keyword_edge_x) >= 3

-----------------------------------------------------------------------------
(* C17 *)

NotANumber(v) == IsNaN(v) \/ IsInf(v)

\* the score document i+1 has for term t in dict(paper['keywords'][:20]) is
\* NaN or infinite
ScoreNotANumber(i, t) ==
    /\ HasKeywords(papers[i + 1])
    /\ DictHas(Prefix(papers[i + 1].keywords, KeywordSlice), t)
    /\ NotANumber(DictGet(Prefix(papers[i + 1].keywords, KeywordSlice), t))

\* the call returned a view, and the view has no edge for a pair of documents
\* whose entry of the matrix is NaN or infinite and none for a document and a
\* term it scores NaN or infinite
NonFiniteEdgesOmitted(view, matrix) ==
    /\ ~IsRaised(view)
    /\ \A p \in DocPairs :
        (HasEntry(matrix, p[1], p[2]) /\ NotANumber(Entry(matrix, p[1], p[2])))
            => <<DocPosition(p[1]), DocPosition(p[2])>> \notin DocSegments(view)
    /\ \A i \in 0..(Len(papers) - 1) : \A t \in DOMAIN view.keyword_positions :
        ScoreNotANumber(i, t)
            => <<DocPosition(i), view.keyword_positions[t]>>
                    \notin KeywordSegments(view)

\* no node sequence of the view holds NaN or an infinity: the coordinates
\* come from the indices alone, the hover text of a keyword shows its weight
NonFiniteKeptOut(view) ==
    \A i \in DOMAIN view.keyword_hover : ~NotANumber(view.keyword_hover[i].count)

\* C17: a similarity or keyword score that is NaN or infinite never produces
\* an edge, in build_network_data and in filter_network_data: the edge is
\* omitted, no NaN or infinity appears in a node or edge sequence of the view,
\* and the call does not raise.
C17_NonFiniteSkipped ==
    /\ pc = "built" =>
        /\ NonFiniteEdgesOmitted(network_data, DocsSimilarity)
        /\ NonFiniteKeptOut(network_data)
    /\ pc = "filtered" =>
        /\ NonFiniteEdgesOmitted(shown, filter_input.similarity_matrix)
        /\ NonFiniteKeptOut(shown)

-----------------------------------------------------------------------------
(* C18 *)

\* the selected paper ids are ids of the current documents, each at most once
SelectedIdsWithinDocuments ==
    /\ \A i, j \in DOMAIN selected_paper_ids :
        i # j => selected_paper_ids[i] # selected_paper_ids[j]
    /\ \A i \in DOMAIN selected_paper_ids :
        \E d \in DOMAIN papers : papers[d].id = selected_paper_ids[i]

\* C18: after any sequence of analyses, check-box clicks, 'show detail' and
\* 'back', the selected detail paper is None or one of the current documents,
\* and the selected paper ids are a duplicate-free subset of the current
\* documents' ids; a new analysis leaves no detail paper of the batch before
\* selected.
C18_SelectionWithinDocuments ==
    /\ selected_paper = None \/ \E d \in DOMAIN papers : papers[d] = selected_paper
    /\ SelectedIdsWithinDocuments

====
